---------------------------- MODULE Spec2Model ----------------------------
(***************************************************************************)
(* A model of find-updates.py: one run of main().  The command line, the   *)
(* process environment and the presence of the two YAML files are fixed   *)
(* in Init; what the outside world answers (the content read_yaml finds in *)
(* a file, whether a post to Twitter or Mastodon throws, the status the    *)
(* Slack webhook returns) is drawn when the call is made.                  *)
(*                                                                         *)
(* Text is a sequence of tokens (strings); the punctuation of JSON is one  *)
(* token per character, so that json.dumps can be computed and escaped.    *)
(* A YAML record is a function from the fields it has to string values;    *)
(* its fields are listed in the order of FieldOrder.  GITHUB_ENV and       *)
(* GITHUB_OUTPUT are taken to name writable files, as the action's runner  *)
(* provides them; the text of the posted messages is not tracked.          *)
(***************************************************************************)
EXTENDS Integers, Sequences, FiniteSets, TLC

VARIABLES
    args,             \* the parsed command line (argparse namespace)
    environ,          \* the environment variables that have a non-empty value
    exists,           \* os.path.exists of args.original and of args.updated
    pc,               \* the position of main()
    client,           \* the tweepy client was built
    mastodon_client,  \* the Mastodon client was built
    original,         \* read_yaml(args.original)
    updated,          \* read_yaml(args.updated)
    keys,             \* the fields to post
    previous,         \* the unique values of original
    new,              \* the records to post
    entries,          \* the records kept for the test run
    webhook,          \* SLACK_WEBHOOK was found in the environment
    matrix,           \* the JSON-safe copies of the processed records
    idx,              \* the number of records of new whose iteration has begun
    calls,            \* the delivery calls made so far: [chan, rec, res]
    outfile,          \* the lines appended to GITHUB_ENV and to GITHUB_OUTPUT
    exitCode,         \* the exit code of the process, once pc = "exited" (-1 before)
    fatal             \* why the process ended, once pc = "exited"

vars == <<args, environ, exists, pc, client, mastodon_client,
          original, updated, keys, previous, new, entries, webhook, matrix, idx,
          calls, outfile, exitCode, fatal>>

inputs == <<args, environ, exists>>

-----------------------------------------------------------------------------
(* Bounds of the model *)

\* the longest original snapshot
MaxOriginal == 1

\* the longest updated snapshot
MaxUpdated == 2

-----------------------------------------------------------------------------
(* The universe of inputs *)

Fields == {"url", "title"}

\* the order in which a document lists the fields of a record
FieldOrder == <<"url", "title">>

\* the records of the documents; "" is the empty (falsy) string
Records ==
    { [url |-> "a"],
      [url |-> "b"],
      [url |-> "", title |-> "a"],
      [title |-> "a"] }

RECURSIVE SeqsUpTo(_, _)
SeqsUpTo(S, n) ==
    IF n = 0 THEN { <<>> }
    ELSE LET shorter == SeqsUpTo(S, n - 1)
         IN  shorter \cup { Append(s, x) : s \in { t \in shorter : Len(t) = n - 1 }, x \in S }

TwitterEnvars ==
    <<"TWITTER_API_KEY", "TWITTER_API_SECRET", "TWITTER_CONSUMER_KEY", "TWITTER_CONSUMER_SECRET">>

MastodonEnvars == <<"MASTODON_ACCESS_TOKEN", "MASTODON_API_BASE_URL">>

Range(s) == { s[i] : i \in 1..Len(s) }

Envars == Range(TwitterEnvars) \cup Range(MastodonEnvars) \cup {"SLACK_WEBHOOK"}

\* the environments of a run: everything set, or one variable unset or empty
Environments == { Envars } \cup { Envars \ {v} : v \in Envars }

\* the values of --keys, cut at the commas
KeyLists == { <<"title", "", "url">> }

\* the statuses the webhook answers with
StatusCodes == { 200, 201, 204, 500 }

-----------------------------------------------------------------------------
(* Text and JSON *)

Quote == "\""

Backslash == "\\"

\* a string value as text
Text(v) == IF v = "" THEN <<>> ELSE <<v>>

\* the escapes json.dumps applies inside a string
RECURSIVE Escape(_)
Escape(t) ==
    IF t = <<>> THEN <<>>
    ELSE (IF Head(t) \in {Quote, Backslash} THEN <<Backslash, Head(t)>> ELSE <<Head(t)>>)
         \o Escape(Tail(t))

\* json.dumps of a string
JsonDumpsStr(t) == <<Quote>> \o Escape(t) \o <<Quote>>

RECURSIVE JoinTexts(_, _)
JoinTexts(ts, sep) ==
    IF ts = <<>> THEN <<>>
    ELSE IF Len(ts) = 1 THEN ts[1]
    ELSE ts[1] \o sep \o JoinTexts(Tail(ts), sep)

\* json.dumps of a list whose items are already dumped
JsonArray(items) == <<"[">> \o JoinTexts(items, <<",", " ">>) \o <<"]">>

\* json.dumps of a list of strings
JsonDumpsStrList(l) == JsonArray([i \in 1..Len(l) |-> JsonDumpsStr(Text(l[i]))])

\* the fields of a record, in the order of the document
FieldsOf(d) == SelectSeq(FieldOrder, LAMBDA f : f \in DOMAIN d)

\* json.dumps of a dict from field names to text
JsonDumpsDict(d) ==
    LET fs == FieldsOf(d)
    IN  <<"{">>
        \o JoinTexts([i \in 1..Len(fs) |->
                         JsonDumpsStr(Text(fs[i])) \o <<":", " ">> \o JsonDumpsStr(d[fs[i]])],
                     <<",", " ">>)
        \o <<"}">>

\* json.dumps of the matrix
JsonDumpsMatrix(m) == JsonArray([i \in 1..Len(m) |-> JsonDumpsDict(m[i])])

-----------------------------------------------------------------------------
(* The differ *)

\* "args.unique in item"
HasUnique(item, unique) == unique \in DOMAIN item

\* the loop that collects the unique values of the original snapshot
RECURSIVE PreviousOf(_, _)
PreviousOf(items, unique) ==
    IF items = <<>> THEN {}
    ELSE LET item == items[Len(items)]
             rest == PreviousOf(SubSeq(items, 1, Len(items) - 1), unique)
         IN  IF HasUnique(item, unique) THEN rest \cup { item[unique] } ELSE rest

\* IsNew without the look into previous
IsNewIgnoresPrevious(item, unique, prev) == HasUnique(item, unique)

\* a record of the updated snapshot goes to new
IsNew(item, unique, prev) == HasUnique(item, unique) /\ item[unique] \notin prev

\* a record of the updated snapshot that is not new goes to entries
IsEntry(item, unique) == HasUnique(item, unique) /\ item[unique] # ""

\* the loop over the updated snapshot: [new, entries]
RECURSIVE Classify(_, _, _)
Classify(items, unique, prev) ==
    IF items = <<>> THEN [new |-> <<>>, entries |-> <<>>]
    ELSE LET item == items[Len(items)]
             rest == Classify(SubSeq(items, 1, Len(items) - 1), unique, prev)
         IN  IF IsNew(item, unique, prev)
             THEN [rest EXCEPT !.new = Append(@, item)]
             ELSE IF IsEntry(item, unique)
             THEN [rest EXCEPT !.entries = Append(@, item)]
             ELSE rest

\* "[x for x in args.keys.split(",") if x]"
ParseKeys(parts) == SelectSeq(parts, LAMBDA x : x # "")

\* the JSON-safe copy of a record: every value dumped on its own
Filtered(entry) == [k \in DOMAIN entry |-> JsonDumpsStr(Text(entry[k]))]

\* StatusAccepted with a lower limit only
StatusAcceptedFrom200(status) == status >= 200

\* StatusAccepted taking every 2xx status
StatusAccepted2xx(status) == status \in 200..299

\* the statuses the webhook's answer is accepted with
StatusAccepted(status) == status \in {200, 201}

\* SkipsWebhook without the test run
SkipsWebhookIgnoresTest(a) == ~a.deploy

\* the test run and the run without the Slack flag stop before the webhook
SkipsWebhook(a) == ~a.deploy \/ a.test

-----------------------------------------------------------------------------
(* Leaving the process, writing the outputs *)

OutputFiles == {"GITHUB_ENV", "GITHUB_OUTPUT"}

\* set_env_and_output, for a sequence of name/value pairs
SetEnvAndOutput(files, pairs) == [f \in OutputFiles |-> files[f] \o pairs]

Line(name, value) == [name |-> name, value |-> value]

\* NoNewJobs with the flag of the other branch
NoNewJobsFlagFalse ==
    << Line("fields", <<"[", "]">>),
       Line("matrix", <<"[", "]">>),
       Line("empty_matrix", <<"false">>) >>

\* lines 225-227: the outputs of a run that finds nothing new
NoNewJobs ==
    << Line("fields", <<"[", "]">>),
       Line("matrix", <<"[", "]">>),
       Line("empty_matrix", <<"true">>) >>

\* sys.exit(code); a message as the argument makes the code 1, and so does
\* an exception nothing catches
Exit(code, why) ==
    /\ pc' = "exited"
    /\ exitCode' = code
    /\ fatal' = why

-----------------------------------------------------------------------------
(* The run *)

Init ==
    /\ args \in [ deploy : BOOLEAN, deploy_twitter : BOOLEAN, deploy_mastodon : BOOLEAN,
                  test : BOOLEAN, unique : Fields, keys : KeyLists ]
    /\ environ \in Environments
    /\ exists \in [ original : BOOLEAN, updated : BOOLEAN ]
    /\ pc = "files"
    /\ client = FALSE
    /\ mastodon_client = FALSE
    /\ original = <<>>
    /\ updated = <<>>
    /\ keys = <<>>
    /\ previous = {}
    /\ new = <<>>
    /\ entries = <<>>
    /\ webhook = FALSE
    /\ matrix = <<>>
    /\ idx = 0
    /\ calls = <<>>
    /\ outfile = [f \in OutputFiles |-> <<>>]
    /\ exitCode = -1
    /\ fatal = ""

\* lines 184-186: both files must exist
CheckFiles ==
    /\ pc = "files"
    /\ IF exists.original /\ exists.updated
       THEN /\ pc' = "twitter_client"
            /\ UNCHANGED <<exitCode, fatal>>
       ELSE Exit(1, "file does not exist")
    /\ UNCHANGED <<inputs, client, mastodon_client, original, updated, keys, previous,
                   new, entries, webhook, matrix, idx, calls, outfile>>

\* FirstMissing looking at the first envar of the list only
FirstMissingChecksOne(envars) == IF envars[1] \in environ THEN 0 ELSE 1

\* the first envar of the list that is not set, 0 when all are
FirstMissing(envars) ==
    IF \A i \in 1..Len(envars) : envars[i] \in environ THEN 0
    ELSE CHOOSE i \in 1..Len(envars) :
            /\ envars[i] \notin environ
            /\ \A j \in 1..(i - 1) : envars[j] \in environ

\* lines 189-191 and get_twitter_client
GetTwitterClient ==
    /\ pc = "twitter_client"
    /\ IF args.deploy_twitter /\ FirstMissing(TwitterEnvars) # 0
       THEN /\ Exit(1, "twitter envar is not set")
            /\ UNCHANGED client
       ELSE /\ client' = args.deploy_twitter
            /\ pc' = "mastodon_client"
            /\ UNCHANGED <<exitCode, fatal>>
    /\ UNCHANGED <<inputs, mastodon_client, original, updated, keys, previous,
                   new, entries, webhook, matrix, idx, calls, outfile>>

\* lines 193-195 and get_mastodon_client
GetMastodonClient ==
    /\ pc = "mastodon_client"
    /\ IF args.deploy_mastodon /\ FirstMissing(MastodonEnvars) # 0
       THEN /\ Exit(1, "mastodon envar is not set")
            /\ UNCHANGED mastodon_client
       ELSE /\ mastodon_client' = args.deploy_mastodon
            /\ pc' = "read"
            /\ UNCHANGED <<exitCode, fatal>>
    /\ UNCHANGED <<inputs, client, original, updated, keys, previous,
                   new, entries, webhook, matrix, idx, calls, outfile>>

\* lines 197-218: read the files, parse the keys, find the new records
FindNew ==
    /\ pc = "read"
    /\ original' \in SeqsUpTo(Records, MaxOriginal)
    /\ updated' \in SeqsUpTo(Records, MaxUpdated)
    /\ keys' = ParseKeys(args.keys)
    /\ previous' = PreviousOf(original', args.unique)
    /\ LET found == Classify(updated', args.unique, previous')
       IN  /\ new' = found.new
           /\ entries' = found.entries
    /\ pc' = "select"
    /\ UNCHANGED <<inputs, client, mastodon_client, webhook, matrix, idx, calls,
                   outfile, exitCode, fatal>>

\* lines 220-233: the test run takes entries; nothing new ends the run;
\* the webhook is looked up
Select ==
    /\ pc = "select"
    /\ IF args.test
       THEN new' = entries
       ELSE UNCHANGED new
    /\ IF ~args.test /\ new = <<>>
       THEN /\ outfile' = SetEnvAndOutput(outfile, NoNewJobs)
            /\ Exit(0, "")
            /\ UNCHANGED webhook
       ELSE /\ webhook' = ("SLACK_WEBHOOK" \in environ)
            /\ UNCHANGED outfile
            /\ IF ~webhook' /\ args.deploy
               THEN Exit(1, "cannot find SLACK_WEBHOOK")
               ELSE /\ pc' = "loop"
                    /\ UNCHANGED <<exitCode, fatal>>
    /\ UNCHANGED <<inputs, client, mastodon_client, original, updated, keys, previous,
                   entries, matrix, idx, calls>>

\* ProcessEntry with the append after the "continue" of the runs that skip
\* the webhook
ProcessEntryAppendsLate ==
    /\ pc = "loop"
    /\ idx < Len(new)
    /\ idx' = idx + 1
    /\ matrix' = IF ~args.deploy \/ args.test
                 THEN matrix
                 ELSE Append(matrix, Filtered(new[idx + 1]))
    /\ pc' = "tweet"
    /\ UNCHANGED <<inputs, client, mastodon_client, original, updated, keys, previous,
                   new, entries, webhook, calls, outfile, exitCode, fatal>>

\* lines 256-276: the next record: its post is prepared and printed, its
\* JSON-safe copy joins the matrix
ProcessEntry ==
    /\ pc = "loop"
    /\ idx < Len(new)
    /\ idx' = idx + 1
    /\ matrix' = Append(matrix, Filtered(new[idx + 1]))
    /\ pc' = "tweet"
    /\ UNCHANGED <<inputs, client, mastodon_client, original, updated, keys, previous,
                   new, entries, webhook, calls, outfile, exitCode, fatal>>

Call(chan, res) == [chan |-> chan, rec |-> idx, res |-> res]

\* lines 278-285: the tweet; what create_tweet throws is caught and printed
Tweet ==
    /\ pc = "tweet"
    /\ \/ /\ args.deploy_twitter /\ client
          /\ \E res \in {"ok", "throws"} : calls' = Append(calls, Call("twitter", res))
       \/ /\ ~(args.deploy_twitter /\ client)
          /\ UNCHANGED calls
    /\ pc' = "toot"
    /\ UNCHANGED <<inputs, client, mastodon_client, original, updated, keys, previous,
                   new, entries, webhook, matrix, idx, outfile, exitCode, fatal>>

\* lines 287-290: the toot; nothing catches what toot throws
Toot ==
    /\ pc = "toot"
    /\ \/ /\ args.deploy_mastodon /\ mastodon_client
          /\ \E res \in {"ok", "throws"} :
                /\ calls' = Append(calls, Call("mastodon", res))
                /\ IF res = "throws"
                   THEN Exit(1, "uncaught exception")
                   ELSE /\ pc' = "slack"
                        /\ UNCHANGED <<exitCode, fatal>>
       \/ /\ ~(args.deploy_mastodon /\ mastodon_client)
          /\ pc' = "slack"
          /\ UNCHANGED <<calls, exitCode, fatal>>
    /\ UNCHANGED <<inputs, client, mastodon_client, original, updated, keys, previous,
                   new, entries, webhook, matrix, idx, outfile>>

\* lines 292-302: the post to the Slack webhook
Post ==
    /\ pc = "slack"
    /\ \/ /\ SkipsWebhook(args)
          /\ pc' = "loop"
          /\ UNCHANGED <<calls, exitCode, fatal>>
       \/ /\ ~SkipsWebhook(args)
          /\ \E status \in StatusCodes :
                /\ calls' = Append(calls, Call("slack", status))
                /\ IF ~StatusAccepted(status)
                   THEN Exit(1, "issue with making POST request")
                   ELSE /\ pc' = "loop"
                        /\ UNCHANGED <<exitCode, fatal>>
    /\ UNCHANGED <<inputs, client, mastodon_client, original, updated, keys, previous,
                   new, entries, webhook, matrix, idx, outfile>>

\* lines 304-308: the loop is over, the outputs are written, main returns
WriteOutputs ==
    /\ pc = "loop"
    /\ idx = Len(new)
    /\ outfile' = SetEnvAndOutput(outfile,
                     << Line("fields", JsonDumpsStrList(keys)),
                        Line("matrix", JsonDumpsMatrix(matrix)),
                        Line("empty_matrix", <<"false">>) >>)
    /\ Exit(0, "")
    /\ UNCHANGED <<inputs, client, mastodon_client, original, updated, keys, previous,
                   new, entries, webhook, matrix, idx, calls>>

Next ==
    \/ CheckFiles
    \/ GetTwitterClient
    \/ GetMastodonClient
    \/ FindNew
    \/ Select
    \/ ProcessEntry
    \/ Tweet
    \/ Toot
    \/ Post
    \/ WriteOutputs

Spec == Init /\ [][Next]_vars

-----------------------------------------------------------------------------
(* Vocabulary of the properties *)

\* the run got past the start-up checks and ran the differ
DifferRan ==
    \/ pc \in {"select", "loop", "tweet", "toot", "slack"}
    \/ /\ pc = "exited"
       /\ fatal \notin {"file does not exist", "twitter envar is not set",
                        "mastodon envar is not set"}

\* the run got past the choice between new and entries
DeltaChosen == DifferRan /\ pc # "select"

InLoop == pc \in {"loop", "tweet", "toot", "slack"}

FilesExist == exists.original /\ exists.updated

\* the snapshots and the uniqueness field of the run
A == original
B == updated
F == args.unique

\* some record of the original snapshot has field F with value v
InOriginal(v) == \E j \in 1..Len(A) : F \in DOMAIN A[j] /\ A[j][F] = v

\* the records of B that have field F and an F-value no record of A has
NewRecords == SelectSeq(B, LAMBDA r : F \in DOMAIN r /\ ~InOriginal(r[F]))

\* the records of B that have field F
RecordsWithF == SelectSeq(B, LAMBDA r : F \in DOMAIN r)

Last(s) == s[Len(s)]

Social == {"twitter", "mastodon"}

\* the value written for an output in a file, <<"?">> when none was
Written(f, name) ==
    IF \E i \in 1..Len(outfile[f]) : outfile[f][i].name = name
    THEN outfile[f][CHOOSE i \in 1..Len(outfile[f]) : outfile[f][i].name = name].value
    ELSE <<"?">>

NothingWritten == \A f \in OutputFiles : outfile[f] = <<>>

EmptyArray == <<"[", "]">>

\* the number of objects of a written array
RECURSIVE Objects(_)
Objects(t) ==
    IF t = <<>> THEN 0 ELSE (IF Head(t) = "{" THEN 1 ELSE 0) + Objects(Tail(t))

TwitterReady == \A i \in 1..Len(TwitterEnvars) : TwitterEnvars[i] \in environ
MastodonReady == \A i \in 1..Len(MastodonEnvars) : MastodonEnvars[i] \in environ

\* the webhook's answer to call k ended the run
AbortedAt(k) ==
    /\ pc = "exited"
    /\ exitCode # 0
    /\ k = Len(calls)
    /\ fatal = "issue with making POST request"

-----------------------------------------------------------------------------
(* C1 *)

\* C1: with test mode off, the Delta the differ computes is the subsequence
\* of B, in B's order, of the records that have field F and whose F-value no
\* record of A has; a record without F is not in it.
C1_DeltaIsNewRecords ==
    (~args.test /\ DifferRan) =>
        /\ new = NewRecords
        /\ \A k \in 1..Len(new) : F \in DOMAIN new[k]

\* a run whose Delta keeps one record of B and leaves another out, A not empty
C1_Witness ==
    /\ ~args.test /\ DifferRan
    /\ previous # {}
    /\ Len(B) = 2 /\ Len(new) = 1
    /\ \E k \in 1..2 : F \notin DOMAIN B[k]

-----------------------------------------------------------------------------
(* C2 *)

\* C2: with test mode on, the Delta main iterates over is every record of B
\* that has field F, those whose F-value occurs in A and those whose F-value
\* does not.
C2_TestDeltaIsEveryRecord ==
    (args.test /\ DeltaChosen) => new = RecordsWithF

-----------------------------------------------------------------------------
(* C3 *)

\* every F-value of B's records is an F-value of A
NothingNewInB == \A k \in 1..Len(B) : F \in DOMAIN B[k] => InOriginal(B[k][F])

ShortCircuited ==
    /\ calls = <<>>
    /\ ~InLoop
    /\ pc = "exited" =>
          /\ exitCode = 0
          /\ \A f \in OutputFiles :
                /\ Len(outfile[f]) = 3
                /\ Written(f, "fields") = EmptyArray
                /\ Written(f, "matrix") = EmptyArray
                /\ Written(f, "empty_matrix") = <<"true">>

\* C3 as claimed: with test mode off, whenever every F-value of B's records
\* is an F-value of A, the run writes fields=[], matrix=[], empty_matrix=true,
\* exits with code 0 and makes no dispatch call, whatever the dispatch flags.
C3_AsClaimed ==
    (FilesExist /\ ~args.test /\ NothingNewInB) => ShortCircuited

\* C3 amended: the same, for the runs in which every social channel whose
\* flag is set has all its credentials.
C3_EmptyDeltaShortCircuit ==
    ( /\ FilesExist /\ ~args.test /\ NothingNewInB
      /\ args.deploy_twitter => TwitterReady
      /\ args.deploy_mastodon => MastodonReady )
    => ShortCircuited

\* a short-circuited run with every flag set, B not empty, no webhook
C3_Witness ==
    /\ pc = "exited" /\ exitCode = 0
    /\ ~args.test /\ NothingNewInB /\ B # <<>>
    /\ args.deploy /\ args.deploy_twitter /\ args.deploy_mastodon
    /\ Written("GITHUB_OUTPUT", "empty_matrix") = <<"true">>

-----------------------------------------------------------------------------
(* C4 *)

\* C4: when the webhook's answer for record k is a failure status (not 2xx),
\* the run ends with a non-zero exit code and nothing is sent for a later
\* record: the call is the last one and no later record is begun.
C4_FailureStatusAborts ==
    \A k \in 1..Len(calls) :
        (calls[k].chan = "slack" /\ calls[k].res \notin 200..299) =>
            /\ pc = "exited"
            /\ exitCode # 0
            /\ k = Len(calls)
            /\ idx = calls[k].rec
            /\ Len(matrix) = idx

\* the webhook answered 500 for the first of two records
C4_Witness ==
    /\ calls # <<>>
    /\ Last(calls).chan = "slack" /\ Last(calls).rec = 1 /\ Last(calls).res = 500
    /\ Len(new) = 2
    /\ pc = "exited"

-----------------------------------------------------------------------------
(* C5 *)

\* C5: in a run with the chat flag off or test mode on, the webhook is never
\* invoked, whatever the social flags and the Delta are.
C5_NoWebhookCall ==
    (~args.deploy \/ args.test) =>
        \A k \in 1..Len(calls) : calls[k].chan # "slack"

\* a finished test run with the chat flag on that posted to a social channel
C5_Witness ==
    /\ args.deploy /\ args.test
    /\ pc = "exited" /\ fatal = "" /\ Len(matrix) > 0
    /\ calls # <<>>

-----------------------------------------------------------------------------
(* C6 *)

\* C6: for each social channel, a delivery call that throws is caught: the
\* run goes on, so a run never ends at such a call with a non-zero code.
C6_SocialFailureNotFatal ==
    ( /\ pc = "exited"
      /\ calls # <<>>
      /\ Last(calls).chan \in Social
      /\ Last(calls).res = "throws" )
    => (exitCode = 0 /\ idx = Len(new))

-----------------------------------------------------------------------------
(* C7 *)

FatalAtStartup ==
    /\ calls = <<>>
    /\ NothingWritten
    /\ ~InLoop
    /\ pc = "exited" => exitCode # 0

\* C7 as claimed: for each channel, whenever its flag is set and a credential
\* it requires is absent, the run ends with a non-zero exit code, whatever
\* the snapshots hold, before a record is dispatched or an output written.
C7_AsClaimed ==
    ( \/ args.deploy /\ "SLACK_WEBHOOK" \notin environ
      \/ args.deploy_twitter /\ ~TwitterReady
      \/ args.deploy_mastodon /\ ~MastodonReady )
    => FatalAtStartup

\* C7 amended: the same for the two social channels; for the chat webhook
\* only in the runs that get past the short circuit (test mode on, or a
\* record of B is new).
C7_MissingCredentialFatal ==
    ( \/ args.deploy /\ "SLACK_WEBHOOK" \notin environ
                     /\ (args.test \/ NewRecords # <<>>)
      \/ args.deploy_twitter /\ ~TwitterReady
      \/ args.deploy_mastodon /\ ~MastodonReady )
    => FatalAtStartup

\* a run with two new records that ended for want of the webhook, every
\* social credential being there
C7_Witness ==
    /\ pc = "exited" /\ exitCode = 1
    /\ ~args.test /\ Len(NewRecords) = 2
    /\ args.deploy /\ "SLACK_WEBHOOK" \notin environ
    /\ args.deploy_twitter /\ args.deploy_mastodon

-----------------------------------------------------------------------------
(* C8 *)

\* C8: in a run that exits with code 0, empty_matrix is "true" exactly when
\* the matrix written is the empty array.
C8_EmptyMatrixFlag ==
    (pc = "exited" /\ exitCode = 0) =>
        \A f \in OutputFiles :
            (Written(f, "empty_matrix") = <<"true">>) <=> (Written(f, "matrix") = EmptyArray)

-----------------------------------------------------------------------------
(* C9 *)

\* C9: the JSON-safe copy of each Delta record joins the matrix once, before
\* any dispatch for the record: the matrix always holds one entry per record
\* begun, in Delta order, no call is for a record without its entry, and a
\* run that completes the loop writes one entry per Delta record.
C9_MatrixEntryPerRecord ==
    /\ Len(matrix) = idx
    /\ InLoop => idx <= Len(new)
    /\ pc \in {"tweet", "toot", "slack"} => idx >= 1
    /\ DeltaChosen =>
          \A k \in 1..Len(matrix) :
              /\ DOMAIN matrix[k] = DOMAIN new[k]
              /\ \A f \in DOMAIN new[k] :
                    matrix[k][f] = <<Quote>> \o Text(new[k][f]) \o <<Quote>>
    /\ \A k \in 1..Len(calls) : calls[k].rec \in 1..Len(matrix)
    /\ (pc = "exited" /\ exitCode = 0 /\ Written("GITHUB_OUTPUT", "empty_matrix") = <<"false">>)
          => /\ Len(matrix) = Len(new)
             /\ \A f \in OutputFiles : Objects(Written(f, "matrix")) = Len(new)

\* a finished test run over two records with no channel enabled
C9_Witness ==
    /\ pc = "exited" /\ exitCode = 0
    /\ args.test /\ ~args.deploy /\ ~args.deploy_twitter /\ ~args.deploy_mastodon
    /\ Len(new) = 2 /\ Len(matrix) = 2
    /\ Objects(Written("GITHUB_ENV", "matrix")) = 2

-----------------------------------------------------------------------------
(* C10 *)

\* C10 as claimed: a webhook call ends the run exactly when the status is
\* not 2xx; every 2xx status lets the run go on.
C10_AsClaimed ==
    \A k \in 1..Len(calls) :
        calls[k].chan = "slack" =>
            (AbortedAt(k) <=> calls[k].res \notin 200..299)

\* C10 amended: a webhook call ends the run exactly when the status is
\* neither 200 nor 201.
C10_AbortsUnless200Or201 ==
    \A k \in 1..Len(calls) :
        calls[k].chan = "slack" =>
            (AbortedAt(k) <=> calls[k].res \notin {200, 201})

\* the webhook answered 201 for the first record and 204 for the second,
\* which ended the run
C10_Witness ==
    /\ Len(calls) >= 2
    /\ \E k \in 1..(Len(calls) - 1) :
          calls[k].chan = "slack" /\ calls[k].rec = 1 /\ calls[k].res = 201
    /\ Last(calls).chan = "slack" /\ Last(calls).rec = 2 /\ Last(calls).res = 204
    /\ AbortedAt(Len(calls))

=============================================================================
